---- MODULE Spec2Model ----
(***************************************************************************)
(* Device provisioning and credential lifecycle of the IoT PaaS API.       *)
(*                                                                         *)
(* The store (the devices table) is the shared state.  POST /api/provision *)
(* is a handler with two awaited store calls (lookup by token, update by   *)
(* id); requests interleave at those awaits.  The /api/devices handlers    *)
(* issue exactly one store call that depends on the devices table, so each *)
(* of them is one step.                                                    *)
(***************************************************************************)
EXTENDS Integers, Sequences, FiniteSets, TLC

\* ------------------------------------------------------------------ bounds
MaxDevices == 2      \* devices ever created
MaxProv == 3         \* provisioning requests received
MaxApiCalls == 2     \* /api/devices requests received

\* ------------------------------------------------------- program constants
TokenLen == 64       \* isLength({ min: 64, max: 64 })
PasswordLen == 32    \* 24 random bytes in base64url
DigestLen == 64      \* sha256 in hex
BrokerPort == 8883
MaxNameLen == 100    \* isLength({ min: 1, max: 100 })

Users == {1, 2}
Projects == {1, 2}
DevIds == 1..MaxDevices
ProvReqs == 1..MaxProv

\* The owner (user_id) of a project: projects(user_id).
ProjectOwner(pr) == pr

\* --------------------------------------------------------------- JSON values
\* A scalar of a JSON body or of a row: its type, and for a string its length,
\* its content (v) and how many times it went through the digest (h).
Undefined == [t |-> "undefined", len |-> 0, v |-> 0, h |-> 0]
Null == [t |-> "null", len |-> 0, v |-> 0, h |-> 0]
Str(n, x) == [t |-> "string", len |-> n, v |-> x, h |-> 0]
Num(x) == [t |-> "number", len |-> 0, v |-> x, h |-> 0]

\* A MAC address candidate, by what the pattern inspects: the number of
\* colon-separated groups, the characters per group, and whether all are hex.
MacUndefined == [t |-> "undefined", groups |-> 0, width |-> 0, hex |-> FALSE]
MacNull == [t |-> "null", groups |-> 0, width |-> 0, hex |-> FALSE]
MacStr(g, w, x) == [t |-> "string", groups |-> g, width |-> w, hex |-> x]

NullUsername == [t |-> "null", u |-> 0, d |-> 0]

\* UUIDs: the first eight hex digits (hi) and the rest (lo).
UserUuid(u) == [hi |-> u, lo |-> u]
DevUuid(d) == [hi |-> d, lo |-> d]

\* ----------------------------------------------------- credential generator
\* id.replace(/-/g, '').slice(0, 8)
Slice8(uuid) == uuid.hi

\* `u_${user_id...slice(0, 8)}_d_${device.id...slice(0, 8)}`
MqttUsername(userUuid, devUuid) ==
  [t |-> "string", u |-> Slice8(userUuid), d |-> Slice8(devUuid)]

\* crypto.randomBytes(24).toString('base64url'): the n-th password drawn.
generateSecurePassword(n) == Str(PasswordLen, n)

\* crypto.createHash('sha256').update(password).digest('hex')
hashPassword(password) == [password EXCEPT !.len = DigestLen, !.h = @ + 1]

\* topicBase and the three patterns built from it.
Topics(userUuid, devUuid) ==
  [subscribe |-> <<"u", userUuid, "d", devUuid, "cmd/#">>,
   state_prefix |-> <<"u", userUuid, "d", devUuid, "state/">>,
   telemetry_prefix |-> <<"u", userUuid, "d", devUuid, "tel/">>]

\* -------------------------------------------------------------------- store
\* rpc('generate_device_token'): the n-th token the store function returns.
GenerateDeviceToken(n) == Str(TokenLen, n)

\* Whether the devices table takes a null device_token: the schema is not part
\* of the sources, so both outcomes are possible.
NullTokenOutcomes == BOOLEAN

NoRow ==
  [id |-> 0, project_id |-> 0, name |-> "", hardware_type |-> "",
   device_token |-> Null, is_provisioned |-> FALSE,
   mqtt_username |-> NullUsername, mqtt_password_hash |-> Null,
   mac_address |-> MacNull, firmware_version |-> Null, provisioned_at |-> 0]

\* The row the insert of POST /api/devices creates; the columns the insert
\* does not name take the table's defaults.
InsertRow(d, project_id, name, hardware_type, deviceToken) ==
  [NoRow EXCEPT !.id = d, !.project_id = project_id, !.name = name,
                !.hardware_type = IF hardware_type = "" THEN "ESP32" ELSE hardware_type,
                !.device_token = deviceToken]

VARIABLES
  devices,     \* DevIds -> row
  live,        \* ids of the rows that exist
  nextDev,     \* ids handed out so far
  tokCounter,  \* tokens generated so far
  pwCounter,   \* passwords generated so far
  req,         \* ProvReqs -> provisioning request, in order of arrival
  apiCalls,    \* requests received so far, other than provisioning requests
  lastResp     \* the response to the last of them

vars == <<devices, live, nextDev, tokCounter, pwCounter, req, apiCalls, lastResp>>

\* ------------------------------------------------------------ provisioning
NoBody == [device_token |-> Undefined, mac_address |-> MacUndefined,
           firmware_version |-> Undefined]

\* Of the row the lookup returns, the handler reads id, name, is_provisioned
\* and project.user_id.
NoDevice == [id |-> 0, name |-> "", is_provisioned |-> FALSE, user_id |-> 0]
Snapshot(row) ==
  [id |-> row.id, name |-> row.name, is_provisioned |-> row.is_provisioned,
   user_id |-> ProjectOwner(row.project_id)]

NoTopics == [subscribe |-> <<>>, state_prefix |-> <<>>, telemetry_prefix |-> <<>>]

\* What a response body of POST /api/provision can carry: the credentials, the
\* topics and the device of a success, the submitted device_token that a
\* validation error echoes.
NoProvisionResp ==
  [username |-> NullUsername, password |-> Undefined, client_id |-> 0,
   port |-> 0, topics |-> NoTopics, device_id |-> 0, device_name |-> "",
   echoed_token |-> Undefined]

\* A success body whose topics change with each provisioning of the device.
ProvisionSuccessBodyEpochTopics(device, username, password) ==
  [NoProvisionResp EXCEPT
     !.username = username, !.password = password, !.client_id = device.id,
     !.port = BrokerPort,
     !.topics = Topics(UserUuid(device.user_id), [hi |-> device.id, lo |-> password.v]),
     !.device_id = device.id, !.device_name = device.name]

\* res.json({ mqtt: {...}, topics: {...}, device: {...} })
ProvisionSuccessBody(device, username, password) ==
  [NoProvisionResp EXCEPT
     !.username = username, !.password = password, !.client_id = device.id,
     !.port = BrokerPort,
     !.topics = Topics(UserUuid(device.user_id), DevUuid(device.id)),
     !.device_id = device.id, !.device_name = device.name]

IdleReq ==
  [pc |-> "idle", body |-> NoBody, device |-> NoDevice,
   ops |-> 0, status |-> 0, resp |-> NoProvisionResp]

GoodMac == MacStr(6, 2, TRUE)

\* Well-formed request bodies: a 64-character token, with or without the
\* optional fields.
ValidBodies ==
  {[device_token |-> Str(TokenLen, k), mac_address |-> mf[1], firmware_version |-> mf[2]] :
     k \in 1..MaxDevices,
     mf \in {<<MacUndefined, Undefined>>, <<GoodMac, Str(5, 1)>>}}

\* Request bodies with one malformed field.
InvalidBodies ==
  {[device_token |-> tk, mac_address |-> GoodMac, firmware_version |-> Str(5, 1)] :
     tk \in {Str(TokenLen - 1, 1), Str(TokenLen + 1, 1), Num(1), Null, Undefined}}
  \cup
  {[device_token |-> Str(TokenLen, 1), mac_address |-> m, firmware_version |-> Undefined] :
     m \in {MacStr(5, 2, TRUE), MacStr(7, 2, TRUE), MacStr(6, 1, TRUE),
            MacStr(6, 2, FALSE), MacNull}}
  \cup
  {[device_token |-> Str(TokenLen, 1), mac_address |-> MacUndefined,
    firmware_version |-> Num(1)]}

\* The length check without its upper limit.
TokenValidNoMax(tk) == tk.t = "string" /\ tk.len >= TokenLen

\* body('device_token').isString().isLength({ min: 64, max: 64 })
TokenValid(tk) == tk.t = "string" /\ tk.len >= TokenLen /\ tk.len <= TokenLen

\* body('mac_address').optional().matches(/^([0-9A-Fa-f]{2}:){5}[0-9A-Fa-f]{2}$/)
MacValid(m) ==
  \/ m.t = "undefined"
  \/ m.t = "string" /\ m.groups = 6 /\ m.width = 2 /\ m.hex

\* body('firmware_version').optional().isString()
FirmwareValid(f) == f.t = "undefined" \/ f.t = "string"

\* validationResult(req): the fields that failed.
ValidationErrors(body) ==
  {fld \in {"device_token", "mac_address", "firmware_version"} :
     \/ fld = "device_token" /\ ~TokenValid(body.device_token)
     \/ fld = "mac_address" /\ ~MacValid(body.mac_address)
     \/ fld = "firmware_version" /\ ~FirmwareValid(body.firmware_version)}

\* res.status(400).json({ errors: errors.array() }): each error carries the
\* submitted value of its field.
ValidationBody(body, errs) ==
  [NoProvisionResp EXCEPT
     !.echoed_token = IF "device_token" \in errs THEN body.device_token ELSE Undefined]

\* A lookup that does not filter on the token.
FindAnyRow(devs, alive, tk) == alive

\* .eq('device_token', device_token): the rows the lookup matches.
FindByToken(devs, alive, tk) == {d \in alive : devs[d].device_token = tk}

\* A handler without the already-provisioned check.
NeverProvisioned(device) == FALSE

\* if (device.is_provisioned) return 409
AlreadyProvisioned(device) == device.is_provisioned

\* The request arrives: the validators run, then `validate`.  Requests are
\* numbered in their order of arrival.
ProvisionRequest(p, body) ==
  /\ req[p].pc = "idle"
  /\ \A q \in ProvReqs : q < p => req[q].pc # "idle"
  /\ LET errs == ValidationErrors(body) IN
       req' = [req EXCEPT ![p] =
                 IF errs # {}
                 THEN [IdleReq EXCEPT !.pc = "done", !.body = body, !.status = 400,
                                      !.resp = ValidationBody(body, errs)]
                 ELSE [IdleReq EXCEPT !.pc = "lookup", !.body = body]]
  /\ UNCHANGED <<devices, live, nextDev, tokCounter, pwCounter, apiCalls, lastResp>>

\* The awaited select ... .eq('device_token', ...).single() and the checks on
\* its result: .single() fails unless exactly one row matches.
ProvisionLookup(p, storeOk) ==
  /\ req[p].pc = "lookup"
  /\ LET found == FindByToken(devices, live, req[p].body.device_token)
         r == [req[p] EXCEPT !.ops = @ + 1] IN
       req' = [req EXCEPT ![p] =
                 IF ~storeOk \/ Cardinality(found) # 1
                 THEN [r EXCEPT !.pc = "done", !.status = 401]
                 ELSE LET d == CHOOSE x \in found : TRUE IN
                        IF AlreadyProvisioned(devices[d])
                        THEN [r EXCEPT !.pc = "done", !.status = 409,
                                       !.device = Snapshot(devices[d])]
                        ELSE [r EXCEPT !.pc = "update",
                                       !.device = Snapshot(devices[d])]]
  /\ UNCHANGED <<devices, live, nextDev, tokCounter, pwCounter, apiCalls, lastResp>>

\* An update that writes mac_address and firmware_version whether or not the
\* request carries them.
ProvisionPatchOverwrite(row, username, password, body, now) ==
  [row EXCEPT !.mqtt_username = username,
              !.mqtt_password_hash = hashPassword(password),
              !.mac_address = IF body.mac_address.t = "undefined" THEN MacNull
                              ELSE body.mac_address,
              !.firmware_version = IF body.firmware_version.t = "undefined" THEN Null
                                   ELSE body.firmware_version,
              !.is_provisioned = TRUE,
              !.provisioned_at = now]

\* The payload of the update: an undefined mac_address or firmware_version is
\* dropped from the JSON body, so the column keeps its value.
ProvisionPatch(row, username, password, body, now) ==
  [row EXCEPT !.mqtt_username = username,
              !.mqtt_password_hash = hashPassword(password),
              !.mac_address = IF body.mac_address.t = "undefined" THEN @
                              ELSE body.mac_address,
              !.firmware_version = IF body.firmware_version.t = "undefined" THEN @
                                   ELSE body.firmware_version,
              !.is_provisioned = TRUE,
              !.provisioned_at = now]

\* The rows .update(...).eq('id', device.id) changes.
UpdateTargets(alive, device) == {d \in alive : d = device.id}

\* if (updateError) throw updateError: the update fails only when the store
\* reports an error; the rows it changed are not looked at.
UpdateFailed(updateError, targets) == updateError

\* The credentials are generated, the awaited update runs, and the response
\* is sent.  The time of the update is the number of the password drawn.
ProvisionUpdate(p, storeOk) ==
  /\ req[p].pc = "update"
  /\ LET password == generateSecurePassword(pwCounter + 1)
         username == MqttUsername(UserUuid(req[p].device.user_id),
                                  DevUuid(req[p].device.id))
         targets == IF storeOk THEN UpdateTargets(live, req[p].device) ELSE {}
         r == [req[p] EXCEPT !.ops = @ + 1, !.pc = "done"] IN
       /\ pwCounter' = pwCounter + 1
       /\ devices' = [d \in DevIds |->
                        IF d \in targets
                        THEN ProvisionPatch(devices[d], username, password,
                                            req[p].body, pwCounter + 1)
                        ELSE devices[d]]
       /\ req' = [req EXCEPT ![p] =
                    IF UpdateFailed(~storeOk, targets)
                    THEN [r EXCEPT !.status = 500]
                    ELSE [r EXCEPT !.status = 200,
                                   !.resp = ProvisionSuccessBody(req[p].device,
                                                                 username, password)]]
  /\ UNCHANGED <<live, nextDev, tokCounter, apiCalls, lastResp>>

\* ----------------------------------------------------------- authentication
\* req.headers.authorization: absent, or a scheme followed by a credential.
\* A bearer credential is the access token of a user, or 0 for a token that
\* belongs to nobody (forged, expired).
NoHeader == [present |-> FALSE, scheme |-> "", token |-> 0]
Header(s, t) == [present |-> TRUE, scheme |-> s, token |-> t]
Headers ==
  {NoHeader, Header("Basic", 1)} \cup {Header("Bearer", t) : t \in {0} \cup Users}

\* authHeader && authHeader.startsWith('Bearer ')
IsBearer(h) == h.present /\ h.scheme = "Bearer"

\* authHeader.split(' ')[1]
BearerToken(h) == h.token

\* What supabaseAdmin.auth.getUser(token) can produce: a user, an error, no
\* user and no error, or an exception.
NoVerdict == [user |-> 0, error |-> FALSE, thrown |-> FALSE]
GetUserOutcomes(token) ==
  {[NoVerdict EXCEPT !.thrown = TRUE]}
  \cup (IF token \in Users
        THEN {[NoVerdict EXCEPT !.user = token]}
        ELSE {[NoVerdict EXCEPT !.error = TRUE], NoVerdict})

\* The verifier is called only for a bearer header.
Verdicts(h) == IF IsBearer(h) THEN GetUserOutcomes(BearerToken(h)) ELSE {NoVerdict}

\* A middleware that lets the request through whatever the verifier said.
authenticateAnyToken(h, v) ==
  IF ~IsBearer(h) THEN [status |-> 401, user |-> 0]
  ELSE IF v.thrown THEN [status |-> 500, user |-> 0]
  ELSE [status |-> 0, user |-> v.user]

\* authenticate(req, res, next): the status of the response it sends, or 0 and
\* req.user when it calls next().
authenticate(h, v) ==
  IF ~IsBearer(h) THEN [status |-> 401, user |-> 0]
  ELSE IF v.thrown THEN [status |-> 500, user |-> 0]
  ELSE IF v.error \/ v.user = 0 THEN [status |-> 401, user |-> 0]
  ELSE [status |-> 0, user |-> v.user]

\* The routers that mount authenticate (router.use(authenticate)).
RequiresAuth(router) == router \in {"projects", "devices"}

\* What runs before the handlers of a router.
Gate(router, h, v) ==
  IF RequiresAuth(router) THEN authenticate(h, v) ELSE [status |-> 0, user |-> 0]

\* ------------------------------------------------------------ /api/devices
\* A response: who asked (the header and what the verifier said of it), the
\* endpoint, the status, the device rows and projects of the body, and the
\* number of store calls (select, insert, update, delete, rpc) the request made.
\* For a PATCH, also the id it addressed and the fields of its body.
NoPatch == [id |-> 0, name |-> "", hardware_type |-> ""]
NoResp ==
  [header |-> NoHeader, verdict |-> NoVerdict, endpoint |-> "none", status |-> 0,
   rows |-> {}, projects |-> {}, ops |-> 0, patch |-> NoPatch]
Resp(h, v, e, s, rows, ops) ==
  [header |-> h, verdict |-> v, endpoint |-> e, status |-> s, rows |-> rows,
   projects |-> {}, ops |-> ops, patch |-> NoPatch]

\* The response of authenticate when it does not call next().
Rejected(h, v, e, g) == Resp(h, v, e, g.status, {}, 0)

\* Row-level security: a user sees the devices of the projects the user owns.
Visible(u, d) == d \in live /\ ProjectOwner(devices[d].project_id) = u

\* A read that hides the token only.
SanitizeReadKeepHash(row) == [row EXCEPT !.device_token = Undefined]

\* GET /api/devices and GET /api/devices/:id: the sensitive fields are hidden.
SanitizeRead(row) ==
  [row EXCEPT !.device_token = Undefined, !.mqtt_password_hash = Undefined]

\* POST /api/devices: the device WITH its token.
SanitizeCreate(row) == [row EXCEPT !.mqtt_password_hash = Undefined]

\* An update response that hides the hash only.
SanitizePatchKeepToken(row) == [row EXCEPT !.mqtt_password_hash = Undefined]

\* PATCH /api/devices/:id
SanitizePatch(row) ==
  [row EXCEPT !.device_token = Undefined, !.mqtt_password_hash = Undefined]

\* POST /api/devices/:id/regenerate-token: device: data
SanitizeRegenerate(row) == row

ListDevices(h, v, storeOk) ==
  /\ apiCalls < MaxApiCalls
  /\ apiCalls' = apiCalls + 1
  /\ LET g == Gate("devices", h, v)
         u == g.user IN
       lastResp' = IF g.status # 0 THEN Rejected(h, v, "list", g)
                   ELSE IF storeOk
                   THEN Resp(h, v, "list", 200,
                             {SanitizeRead(devices[d]) : d \in {x \in DevIds : Visible(u, x)}},
                             1)
                   ELSE Resp(h, v, "list", 500, {}, 1)
  /\ UNCHANGED <<devices, live, nextDev, tokCounter, pwCounter, req>>

GetDevice(h, v, d, storeOk) ==
  /\ apiCalls < MaxApiCalls
  /\ apiCalls' = apiCalls + 1
  /\ LET g == Gate("devices", h, v)
         u == g.user IN
       lastResp' = IF g.status # 0 THEN Rejected(h, v, "get", g)
                   ELSE IF ~storeOk THEN Resp(h, v, "get", 500, {}, 1)
                   ELSE IF ~Visible(u, d) THEN Resp(h, v, "get", 404, {}, 1)
                   ELSE Resp(h, v, "get", 200, {SanitizeRead(devices[d])}, 1)
  /\ UNCHANGED <<devices, live, nextDev, tokCounter, pwCounter, req>>

CreateDevice(h, v, project_id, name, hardware_type, rpcOk, storeOk, nullOk) ==
  /\ apiCalls < MaxApiCalls
  /\ apiCalls' = apiCalls + 1
  /\ nextDev < MaxDevices
  /\ LET g == Gate("devices", h, v)
         u == g.user IN
       IF g.status # 0
       THEN /\ lastResp' = Rejected(h, v, "create", g)
            /\ UNCHANGED <<devices, live, nextDev, tokCounter>>
       ELSE IF ProjectOwner(project_id) # u
       THEN /\ lastResp' = Resp(h, v, "create", 404, {}, 1)
            /\ UNCHANGED <<devices, live, nextDev, tokCounter>>
       ELSE /\ LET deviceToken == IF rpcOk THEN GenerateDeviceToken(tokCounter + 1) ELSE Null
                   d == nextDev + 1
                   row == InsertRow(d, project_id, name, hardware_type, deviceToken) IN
                 /\ tokCounter' = IF rpcOk THEN tokCounter + 1 ELSE tokCounter
                 /\ IF storeOk /\ (deviceToken = Null => nullOk)
                    THEN /\ devices' = [devices EXCEPT ![d] = row]
                         /\ live' = live \cup {d}
                         /\ nextDev' = d
                         /\ lastResp' = Resp(h, v, "create", 201, {SanitizeCreate(row)}, 3)
                    ELSE /\ lastResp' = Resp(h, v, "create", 500, {}, 3)
                         /\ UNCHANGED <<devices, live, nextDev>>
  /\ UNCHANGED <<pwCounter, req>>

\* An id that is not a UUID.
NotUuid == 0

\* A name of 101 characters.
Ten == "xxxxxxxxxx"
LongName == Ten \o Ten \o Ten \o Ten \o Ten \o Ten \o Ten \o Ten \o Ten \o Ten \o "x"

\* param('id').isUUID(), body('name').optional().isString().trim()
\* .isLength({ min: 1, max: 100 }), then validate: the fields that failed ("" is
\* a field the body does not carry).
PatchValidationErrors(d, name, hardware_type) ==
  {fld \in {"id", "name"} :
     \/ fld = "id" /\ d = NotUuid
     \/ fld = "name" /\ name # "" /\ (Len(name) < 1 \/ Len(name) > MaxNameLen)}

\* An update that also resets the provisioned flag.
PatchRowResetsProvisioning(row, name, hardware_type) ==
  [row EXCEPT !.name = IF name = "" THEN @ ELSE name,
              !.hardware_type = IF hardware_type = "" THEN @ ELSE hardware_type,
              !.is_provisioned = FALSE]

\* updates: only the truthy fields of the body.
PatchRow(row, name, hardware_type) ==
  [row EXCEPT !.name = IF name = "" THEN @ ELSE name,
              !.hardware_type = IF hardware_type = "" THEN @ ELSE hardware_type]

PatchResp(h, v, d, name, hardware_type, s, rows, ops) ==
  [Resp(h, v, "patch", s, rows, ops) EXCEPT
     !.patch = [id |-> d, name |-> name, hardware_type |-> hardware_type]]

PatchDevice(h, v, d, name, hardware_type, storeOk) ==
  /\ apiCalls < MaxApiCalls
  /\ apiCalls' = apiCalls + 1
  /\ LET g == Gate("devices", h, v)
         u == g.user IN
       IF g.status # 0
       THEN /\ lastResp' = PatchResp(h, v, d, name, hardware_type, g.status, {}, 0)
            /\ UNCHANGED devices
       ELSE IF PatchValidationErrors(d, name, hardware_type) # {}
       THEN /\ lastResp' = PatchResp(h, v, d, name, hardware_type, 400, {}, 0)
            /\ UNCHANGED devices
       ELSE IF name = "" /\ hardware_type = ""
       THEN /\ lastResp' = PatchResp(h, v, d, name, hardware_type, 400, {}, 0)
            /\ UNCHANGED devices
       ELSE IF ~storeOk
       THEN /\ lastResp' = PatchResp(h, v, d, name, hardware_type, 500, {}, 1)
            /\ UNCHANGED devices
       ELSE IF ~Visible(u, d)
       THEN /\ lastResp' = PatchResp(h, v, d, name, hardware_type, 404, {}, 1)
            /\ UNCHANGED devices
       ELSE LET row == PatchRow(devices[d], name, hardware_type) IN
              /\ devices' = [devices EXCEPT ![d] = row]
              /\ lastResp' = PatchResp(h, v, d, name, hardware_type, 200,
                                       {SanitizePatch(row)}, 1)
  /\ UNCHANGED <<live, nextDev, tokCounter, pwCounter, req>>

DeleteDevice(h, v, d, storeOk) ==
  /\ apiCalls < MaxApiCalls
  /\ apiCalls' = apiCalls + 1
  /\ LET g == Gate("devices", h, v)
         u == g.user IN
       IF g.status # 0
       THEN /\ lastResp' = Rejected(h, v, "delete", g)
            /\ UNCHANGED <<devices, live>>
       ELSE IF ~storeOk
       THEN /\ lastResp' = Resp(h, v, "delete", 500, {}, 1)
            /\ UNCHANGED <<devices, live>>
       ELSE /\ lastResp' = Resp(h, v, "delete", 204, {}, 1)
            /\ IF Visible(u, d)
               THEN /\ live' = live \ {d}
                    /\ devices' = [devices EXCEPT ![d] = NoRow]
               ELSE UNCHANGED <<devices, live>>
  /\ UNCHANGED <<nextDev, tokCounter, pwCounter, req>>

\* A regeneration that clears the credentials and leaves the flag as it is.
RegeneratePatchKeepFlag(row, newToken) ==
  [row EXCEPT !.device_token = newToken, !.mqtt_username = NullUsername,
              !.mqtt_password_hash = Null]

\* The payload of the regenerate-token update.
RegeneratePatch(row, newToken) ==
  [row EXCEPT !.device_token = newToken,
              !.is_provisioned = FALSE,
              !.mqtt_username = NullUsername,
              !.mqtt_password_hash = Null]

\* const { data: tokenResult } = await supabaseAdmin.rpc(...): the error of
\* the call is not read; a failed call leaves data null.
RegenerateNewToken(rpcOk, n) == IF rpcOk THEN GenerateDeviceToken(n) ELSE Null

RegenerateToken(h, v, d, rpcOk, storeOk, nullOk) ==
  /\ apiCalls < MaxApiCalls
  /\ apiCalls' = apiCalls + 1
  /\ LET g == Gate("devices", h, v)
         u == g.user
         newToken == RegenerateNewToken(rpcOk, tokCounter + 1) IN
       IF g.status # 0
       THEN /\ lastResp' = Rejected(h, v, "regenerate", g)
            /\ UNCHANGED <<devices, tokCounter>>
       ELSE /\ tokCounter' = IF rpcOk THEN tokCounter + 1 ELSE tokCounter
            /\ IF ~storeOk \/ (Visible(u, d) /\ newToken = Null /\ ~nullOk)
               THEN /\ lastResp' = Resp(h, v, "regenerate", 500, {}, 2)
                    /\ UNCHANGED devices
               ELSE IF ~Visible(u, d)
               THEN /\ lastResp' = Resp(h, v, "regenerate", 404, {}, 2)
                    /\ UNCHANGED devices
               ELSE LET row == RegeneratePatch(devices[d], newToken) IN
                      /\ devices' = [devices EXCEPT ![d] = row]
                      /\ lastResp' = Resp(h, v, "regenerate", 200,
                                          {SanitizeRegenerate(row)}, 2)
  /\ UNCHANGED <<live, nextDev, pwCounter, req>>

\* ----------------------------------------------------------- /api/projects
\* Row-level security: a user sees the projects the user owns.
VisibleProjects(u) == {pr \in Projects : ProjectOwner(pr) = u}

\* GET /api/projects
ListProjects(h, v, storeOk) ==
  /\ apiCalls < MaxApiCalls
  /\ apiCalls' = apiCalls + 1
  /\ LET g == Gate("projects", h, v)
         u == g.user IN
       lastResp' = IF g.status # 0 THEN Rejected(h, v, "projects", g)
                   ELSE IF storeOk
                   THEN [Resp(h, v, "projects", 200, {}, 1) EXCEPT
                           !.projects = VisibleProjects(u)]
                   ELSE Resp(h, v, "projects", 500, {}, 1)
  /\ UNCHANGED <<devices, live, nextDev, tokCounter, pwCounter, req>>

\* ------------------------------------------------------------------ /health
\* app.get('/health', ...)
Health(h, v) ==
  /\ apiCalls < MaxApiCalls
  /\ apiCalls' = apiCalls + 1
  /\ LET g == Gate("health", h, v) IN
       lastResp' = IF g.status # 0 THEN Rejected(h, v, "health", g)
                   ELSE Resp(h, v, "health", 200, {}, 0)
  /\ UNCHANGED <<devices, live, nextDev, tokCounter, pwCounter, req>>

\* ------------------------------------------------- /api/provision, mounted
\* app.use('/api/provision', provisionRouter): what runs before the handlers of
\* the router, then the validators and the handler.
ProvisionArrival(p, h, v, body) ==
  LET g == Gate("provision", h, v) IN
    IF g.status # 0
    THEN /\ req[p].pc = "idle"
         /\ \A q \in ProvReqs : q < p => req[q].pc # "idle"
         /\ req' = [req EXCEPT ![p] = [IdleReq EXCEPT !.pc = "done", !.body = body,
                                                      !.status = g.status]]
         /\ UNCHANGED <<devices, live, nextDev, tokCounter, pwCounter, apiCalls, lastResp>>
    ELSE ProvisionRequest(p, body)

\* ------------------------------------------------------------ specification
Init ==
  /\ devices = [d \in DevIds |-> NoRow]
  /\ live = {}
  /\ nextDev = 0
  /\ tokCounter = 0
  /\ pwCounter = 0
  /\ req = [p \in ProvReqs |-> IdleReq]
  /\ apiCalls = 0
  /\ lastResp = NoResp

\* The name and hardware_type of the request bodies tried ("" for a field the
\* body does not carry).
CreateInputs == {<<"plug", "">>}
PatchInputs == {<<"", "">>, <<"lamp", "ESP8266">>}

\* The provisioning bodies tried next to the /api/devices requests.
ProvisionBodies == ValidBodies \cup {b \in InvalidBodies : b.device_token.len > TokenLen}

\* The requests of signed-in users: the access token of a user, which the
\* verifier resolves to that user.
UserAuth == {<<Header("Bearer", u), [NoVerdict EXCEPT !.user = u]>> : u \in Users}

\* Any header, with anything the verifier can say of it.
AnyAuth == UNION {{<<h, v>> : v \in Verdicts(h)} : h \in Headers}

Next ==
  \/ \E p \in ProvReqs, body \in ProvisionBodies : ProvisionRequest(p, body)
  \/ \E p \in ProvReqs, storeOk \in BOOLEAN : ProvisionLookup(p, storeOk)
  \/ \E p \in ProvReqs, storeOk \in BOOLEAN : ProvisionUpdate(p, storeOk)
  \/ \E a \in UserAuth, storeOk \in BOOLEAN : ListDevices(a[1], a[2], storeOk)
  \/ \E a \in UserAuth, d \in DevIds, storeOk \in BOOLEAN : GetDevice(a[1], a[2], d, storeOk)
  \/ \E a \in UserAuth, pr \in Projects, in \in CreateInputs,
        rpcOk \in BOOLEAN, storeOk \in BOOLEAN, nullOk \in NullTokenOutcomes :
       CreateDevice(a[1], a[2], pr, in[1], in[2], rpcOk, storeOk, nullOk)
  \/ \E a \in UserAuth, d \in DevIds, in \in PatchInputs, storeOk \in BOOLEAN :
       PatchDevice(a[1], a[2], d, in[1], in[2], storeOk)
  \/ \E a \in UserAuth, d \in DevIds, storeOk \in BOOLEAN :
       DeleteDevice(a[1], a[2], d, storeOk)
  \/ \E a \in UserAuth, d \in DevIds, rpcOk \in BOOLEAN, storeOk \in BOOLEAN,
        nullOk \in NullTokenOutcomes :
       RegenerateToken(a[1], a[2], d, rpcOk, storeOk, nullOk)

Spec == Init /\ [][Next]_vars

\* A client that sends its provisioning requests one after the other: a request
\* arrives only when every earlier one has been answered, and the store
\* answers its lookups.  The /api/devices requests still arrive at any time.
SeqProvisionRequest(p, body) ==
  /\ \A q \in ProvReqs : req[q].pc \in {"idle", "done"}
  /\ ProvisionRequest(p, body)

SeqNext ==
  \/ \E p \in ProvReqs, body \in ValidBodies : SeqProvisionRequest(p, body)
  \/ \E p \in ProvReqs : ProvisionLookup(p, TRUE)
  \/ \E p \in ProvReqs, storeOk \in BOOLEAN : ProvisionUpdate(p, storeOk)
  \/ \E a \in UserAuth, pr \in Projects, in \in CreateInputs,
        rpcOk \in BOOLEAN, storeOk \in BOOLEAN, nullOk \in NullTokenOutcomes :
       CreateDevice(a[1], a[2], pr, in[1], in[2], rpcOk, storeOk, nullOk)
  \/ \E a \in UserAuth, d \in DevIds, in \in PatchInputs, storeOk \in BOOLEAN :
       PatchDevice(a[1], a[2], d, in[1], in[2], storeOk)
  \/ \E a \in UserAuth, d \in DevIds, storeOk \in BOOLEAN :
       DeleteDevice(a[1], a[2], d, storeOk)
  \/ \E a \in UserAuth, d \in DevIds, rpcOk \in BOOLEAN, storeOk \in BOOLEAN,
        nullOk \in NullTokenOutcomes :
       RegenerateToken(a[1], a[2], d, rpcOk, storeOk, nullOk)

SeqSpec == Init /\ [][SeqNext]_vars

\* Provisioning requests with well-formed and malformed bodies, against a store
\* that devices are being created in.
ValidationNext ==
  \/ \E p \in ProvReqs, body \in ValidBodies \cup InvalidBodies :
       ProvisionRequest(p, body)
  \/ \E p \in ProvReqs : ProvisionLookup(p, TRUE)
  \/ \E p \in ProvReqs : ProvisionUpdate(p, TRUE)
  \/ \E a \in UserAuth, pr \in Projects, in \in CreateInputs :
       /\ ProjectOwner(pr) = a[2].user
       /\ CreateDevice(a[1], a[2], pr, in[1], in[2], TRUE, TRUE, TRUE)

ValidationSpec == Init /\ [][ValidationNext]_vars

\* Requests with every kind of Authorization header, to every router, against
\* a store that answers.  Devices send their provisioning requests without a
\* bearer token.
DeviceHeaders == {h \in Headers : ~IsBearer(h)}
AuthBodies == {b \in ValidBodies : b.mac_address = MacUndefined}

AuthNext ==
  \/ \E p \in ProvReqs, h \in DeviceHeaders, body \in AuthBodies :
       ProvisionArrival(p, h, NoVerdict, body)
  \/ \E p \in ProvReqs : ProvisionLookup(p, TRUE)
  \/ \E p \in ProvReqs : ProvisionUpdate(p, TRUE)
  \/ \E a \in AnyAuth : Health(a[1], a[2])
  \/ \E a \in AnyAuth : ListProjects(a[1], a[2], TRUE)
  \/ \E a \in AnyAuth : ListDevices(a[1], a[2], TRUE)
  \/ \E a \in AnyAuth, d \in DevIds : GetDevice(a[1], a[2], d, TRUE)
  \/ \E a \in AnyAuth, pr \in Projects, in \in CreateInputs :
       CreateDevice(a[1], a[2], pr, in[1], in[2], TRUE, TRUE, TRUE)
  \/ \E a \in AnyAuth, d \in DevIds, in \in PatchInputs :
       PatchDevice(a[1], a[2], d, in[1], in[2], TRUE)
  \/ \E a \in AnyAuth, d \in DevIds : DeleteDevice(a[1], a[2], d, TRUE)
  \/ \E a \in AnyAuth, d \in DevIds : RegenerateToken(a[1], a[2], d, TRUE, TRUE, TRUE)

AuthSpec == Init /\ [][AuthNext]_vars

\* PATCH requests of signed-in users with every combination of name and
\* hardware_type, well-formed or not, against devices that are being created,
\* provisioned and given new tokens.
AllPatchInputs ==
  ({"", "lamp"} \X {"", "ESP8266"}) \cup {<<LongName, "">>, <<LongName, "ESP8266">>}

PatchNext ==
  \/ \E p \in ProvReqs, body \in ValidBodies : SeqProvisionRequest(p, body)
  \/ \E p \in ProvReqs : ProvisionLookup(p, TRUE)
  \/ \E p \in ProvReqs : ProvisionUpdate(p, TRUE)
  \/ \E a \in UserAuth, pr \in Projects, in \in CreateInputs :
       /\ ProjectOwner(pr) = a[2].user
       /\ CreateDevice(a[1], a[2], pr, in[1], in[2], TRUE, TRUE, TRUE)
  \/ \E a \in UserAuth, d \in DevIds \cup {NotUuid}, in \in AllPatchInputs,
        storeOk \in BOOLEAN :
       PatchDevice(a[1], a[2], d, in[1], in[2], storeOk)

PatchSpec == Init /\ [][PatchNext]_vars

\* ------------------------------------------------------------------ claims
\* C1: two provisioning requests that both present the token of a device and
\* both find it unprovisioned (they run concurrently) do not both get a 200
\* with a password; and when one of them got the 200 and the token is still
\* the device's, the stored hash is the hash of that password.
C1_ConcurrentProvisionOneSuccess ==
  \A p, q \in ProvReqs :
    (/\ p # q
     /\ req[p].pc = "done" /\ req[q].pc = "done"
     /\ req[p].body.device_token = req[q].body.device_token
     /\ req[p].device.id # 0 /\ req[q].device.id = req[p].device.id
     /\ ~req[p].device.is_provisioned /\ ~req[q].device.is_provisioned
     /\ req[p].status = 200)
    => /\ req[q].status # 200
       /\ (req[p].device.id \in live
           /\ devices[req[p].device.id].device_token = req[p].body.device_token)
          => devices[req[p].device.id].mqtt_password_hash
               = hashPassword(req[p].resp.password)

\* C2: with provisioning requests sent one after the other, a request that
\* follows a 200 for the same token (the token still being the device's: no
\* regeneration, no deletion) gets 409 and leaves the record as the first call
\* wrote it; and a request that found its device unprovisioned gets 200 unless
\* the update failed.
C2_SecondCallConflicts ==
  /\ \A p, q \in ProvReqs :
       LET d == req[p].device.id IN
       (/\ p < q
        /\ req[p].pc = "done" /\ req[q].pc = "done"
        /\ req[p].status = 200
        /\ req[q].body.device_token = req[p].body.device_token
        /\ d \in live
        /\ devices[d].device_token = req[p].body.device_token)
       => /\ req[q].status = 409
          /\ req[q].resp.password = Undefined
          /\ devices[d].is_provisioned
          /\ devices[d].mqtt_username = req[p].resp.username
          /\ devices[d].mqtt_password_hash = hashPassword(req[p].resp.password)
          /\ devices[d].provisioned_at = req[p].resp.password.v
          /\ req[p].body.mac_address.t # "undefined"
               => devices[d].mac_address = req[p].body.mac_address
          /\ req[p].body.firmware_version.t # "undefined"
               => devices[d].firmware_version = req[p].body.firmware_version
  /\ \A p \in ProvReqs :
       (/\ req[p].pc = "done"
        /\ req[p].device.id # 0
        /\ ~req[p].device.is_provisioned
        /\ req[p].status # 500)
       => req[p].status = 200 /\ req[p].resp.password.t = "string"

\* The first call got 200, a call for another device came in between, and the
\* second call with the first token got 409.
C2_Witness ==
  /\ req[1].status = 200
  /\ req[2].status = 200
  /\ req[2].body.device_token # req[1].body.device_token
  /\ req[3].status = 409
  /\ req[3].body.device_token = req[1].body.device_token
  /\ req[1].device.id \in live
  /\ devices[req[1].device.id].device_token = req[1].body.device_token

ProvisionedFieldsSet(row) ==
  row.mqtt_username.t # "null" /\ row.mqtt_password_hash.t # "null"

\* C3: in every state of the store, each device record has is_provisioned
\* true exactly when mqtt_username and mqtt_password_hash are both non-null.
C3_ProvisionedIffCredentials ==
  \A d \in live : devices[d].is_provisioned <=> ProvisionedFieldsSet(devices[d])

\* A device that was provisioned and then had its token regenerated.
C3_Witness ==
  \E d \in live : ~devices[d].is_provisioned /\ devices[d].provisioned_at # 0

\* C7: a device_token is carried only by the 201 response of the request that
\* created the device and the 200 response of a regenerate-token request, and
\* there it is the token the request stored; no list, get or update response
\* carries one, and no provisioning response carries the token of a device.
C7_TokenOnlyAtCreateAndRegenerate ==
  /\ \A row \in lastResp.rows :
       row.device_token.t # "undefined" =>
         /\ \/ lastResp.endpoint = "create" /\ lastResp.status = 201
            \/ lastResp.endpoint = "regenerate" /\ lastResp.status = 200
         /\ row.id \in live
         /\ devices[row.id].device_token = row.device_token
  /\ \A p \in ProvReqs, d \in live :
       devices[d].device_token.t = "string" =>
         req[p].resp.echoed_token # devices[d].device_token

\* A list, get or update response about a device that has a token.
C7_Witness ==
  /\ lastResp.endpoint \in {"list", "get", "patch"}
  /\ lastResp.status = 200
  /\ \E row \in lastResp.rows :
       row.id \in live /\ devices[row.id].device_token.t = "string"

\* C8: no response carries a non-null mqtt_password_hash, and a provisioning
\* response other than the 200 carries no password.
C8_NoHashNoPasswordOnFailure ==
  /\ \A row \in lastResp.rows : row.mqtt_password_hash.t \in {"undefined", "null"}
  /\ \A p \in ProvReqs :
       req[p].status # 200 => req[p].resp.password = Undefined

\* A read of a device whose password hash is stored.
C8_Witness ==
  /\ lastResp.endpoint \in {"list", "get"}
  /\ \E row \in lastResp.rows :
       row.id \in live /\ devices[row.id].mqtt_password_hash.t = "string"

\* C9: a provisioning request whose well-formed token matches no device is
\* answered 401 by its lookup, and the store is left as it was.
C9_UnknownTokenRejected ==
  [][\A p \in ProvReqs :
       (/\ req[p].pc = "lookup"
        /\ req'[p].pc # "lookup"
        /\ \A d \in live : devices[d].device_token # req[p].body.device_token)
       => /\ req'[p].pc = "done"
          /\ req'[p].status = 401
          /\ req'[p].resp.password = Undefined
          /\ devices' = devices
          /\ live' = live]_vars

\* A request answered 401 while the store holds a device under another token.
C9_Witness ==
  \E p \in ProvReqs :
    /\ req[p].status = 401
    /\ req[p].ops = 1
    /\ \A d \in live : devices[d].device_token # req[p].body.device_token
    /\ \E d \in live : devices[d].device_token.t = "string"

\* C4: a provisioning request is answered 200 with a password only if, when
\* the response is sent, the record of its device exists, is provisioned and
\* holds the hash of that password.
C4_SuccessReflectsStore ==
  [][\A p \in ProvReqs :
       (req[p].pc = "update" /\ req'[p].pc = "done" /\ req'[p].status = 200)
       => /\ req[p].device.id \in live'
          /\ devices'[req[p].device.id].is_provisioned
          /\ devices'[req[p].device.id].mqtt_password_hash
               = hashPassword(req'[p].resp.password)]_vars

\* C5: an unprovisioned device becomes provisioned only through a provisioning
\* request that presented the token the device has at that moment.
C5_ProvisionedOnlyByCurrentToken ==
  [][\A d \in DevIds :
       (d \in live /\ ~devices[d].is_provisioned /\ devices'[d].is_provisioned)
       => \E p \in ProvReqs :
            /\ req[p].pc = "update" /\ req'[p].pc = "done"
            /\ req[p].body.device_token = devices[d].device_token]_vars

\* C6: a 200 response of regenerate-token carries a token that is a string,
\* is stored on the device and differs from the token the device had.
C6_RegenerateInstallsNewToken ==
  [][(/\ apiCalls' # apiCalls
      /\ lastResp'.endpoint = "regenerate"
      /\ lastResp'.status = 200)
     => \A row \in lastResp'.rows :
          /\ row.device_token.t = "string"
          /\ devices'[row.id].device_token = row.device_token
          /\ row.device_token # devices[row.id].device_token]_vars

IsToken64(tk) == tk.t = "string" /\ tk.len = TokenLen
IsMacAddress(m) == m.t = "string" /\ m.groups = 6 /\ m.width = 2 /\ m.hex

\* C10: a provisioning request whose device_token is not a string of exactly
\* 64 characters, or whose mac_address is present and not six colon-separated
\* two-digit hex octets, is answered 400 without any store call.
C10_MalformedRejectedBeforeStore ==
  \A p \in ProvReqs :
    (/\ req[p].pc # "idle"
     /\ \/ ~IsToken64(req[p].body.device_token)
        \/ (req[p].body.mac_address.t # "undefined"
            /\ ~IsMacAddress(req[p].body.mac_address)))
    => req[p].pc = "done" /\ req[p].status = 400 /\ req[p].ops = 0

\* An over-long token and a malformed MAC address were both rejected while the
\* store holds a device.
C10_Witness ==
  /\ live # {}
  /\ \E p, q \in ProvReqs :
       /\ req[p].status = 400 /\ req[p].body.device_token.len > TokenLen
       /\ req[q].status = 400 /\ req[q].body.mac_address.t = "string"
       /\ ~IsMacAddress(req[q].body.mac_address)

LacksBearer(h) == ~h.present \/ h.scheme # "Bearer"
VerifierRejects(v) == ~v.thrown /\ (v.error \/ v.user = 0)
GuardedEndpoints == {"projects", "list", "get", "create", "patch", "delete", "regenerate"}

\* C11: a request to an /api/projects or /api/devices endpoint without a
\* 'Bearer <token>' header, or with a token the verifier rejects, is answered
\* 401 with an empty body, makes no store call and leaves the store and the
\* token generator as they were; /health answers 200 and a provisioning
\* request goes on to its validators and its lookup whatever the header, so it
\* is never answered 401 on arrival.
C11_UnauthenticatedRejectedBeforeStore ==
  [][/\ (/\ apiCalls' # apiCalls
         /\ lastResp'.endpoint \in GuardedEndpoints
         /\ LacksBearer(lastResp'.header) \/ VerifierRejects(lastResp'.verdict))
        => /\ lastResp'.status = 401
           /\ lastResp'.ops = 0
           /\ lastResp'.rows = {} /\ lastResp'.projects = {}
           /\ devices' = devices /\ live' = live
           /\ nextDev' = nextDev /\ tokCounter' = tokCounter
     /\ (apiCalls' # apiCalls /\ lastResp'.endpoint = "health")
        => lastResp'.status = 200
     /\ \A p \in ProvReqs :
          (req[p].pc = "idle" /\ req'[p].pc # "idle")
          => req'[p].status \notin {401, 500}]_vars

\* A regenerate-token request with a rejected token was answered 401 while its
\* device exists with a token, and a provisioning request was answered 200.
C11_Witness ==
  /\ lastResp.endpoint = "regenerate"
  /\ lastResp.status = 401
  /\ lastResp.header = Header("Bearer", 0)
  /\ lastResp.verdict.error
  /\ \E d \in live : devices[d].device_token.t = "string"
  /\ \E p \in ProvReqs : req[p].status = 200

\* u/{ownerId}/d/{deviceId}/cmd/#, .../state/ and .../tel/
TopicNamespace(ownerId, deviceId) ==
  [subscribe |-> <<"u", UserUuid(ownerId), "d", DevUuid(deviceId), "cmd/#">>,
   state_prefix |-> <<"u", UserUuid(ownerId), "d", DevUuid(deviceId), "state/">>,
   telemetry_prefix |-> <<"u", UserUuid(ownerId), "d", DevUuid(deviceId), "tel/">>]

\* C12: every 200 provisioning response for a device carries the topics
\* u/{ownerId}/d/{deviceId}/cmd/#, .../state/ and .../tel/ of the device's
\* owner and id, and any two 200 responses for the same device, whatever
\* regenerations and provisionings lie between them, carry the same topics.
C12_TopicsStableAcrossCycles ==
  /\ \A p \in ProvReqs :
       (req[p].status = 200 /\ req[p].resp.device_id \in live)
       => req[p].resp.topics
            = TopicNamespace(ProjectOwner(devices[req[p].resp.device_id].project_id),
                             req[p].resp.device_id)
  /\ \A p, q \in ProvReqs :
       (/\ req[p].status = 200 /\ req[q].status = 200
        /\ req[p].resp.device_id = req[q].resp.device_id)
       => req[p].resp.topics = req[q].resp.topics

\* A device provisioned, its token regenerated, and provisioned again with the
\* new token: two 200 responses for one device with different passwords.
C12_Witness ==
  \E p, q \in ProvReqs :
    /\ p < q
    /\ req[p].status = 200 /\ req[q].status = 200
    /\ req[p].resp.device_id = req[q].resp.device_id
    /\ req[p].body.device_token # req[q].body.device_token
    /\ req[p].resp.password # req[q].resp.password
    /\ req[q].resp.device_id \in live

\* C13: the update of a provisioning request answered 200 sets, on the record
\* of the device its lookup matched, mqtt_username, mqtt_password_hash (the
\* hash of the password returned), is_provisioned = true and provisioned_at;
\* it sets mac_address and firmware_version to the submitted values when the
\* request carries them and leaves them as stored otherwise; it leaves
\* device_token, project_id, name, hardware_type and id of that record, every
\* other record and the set of records as they were.
C13_ProvisionUpdateFrame ==
  [][\A p \in ProvReqs :
       (req[p].pc = "update" /\ req'[p].pc = "done" /\ req'[p].status = 200)
       => /\ live' = live
          /\ \A d \in DevIds :
               IF d = req[p].device.id /\ d \in live
               THEN /\ devices'[d].mqtt_username = req'[p].resp.username
                    /\ devices'[d].mqtt_username.t = "string"
                    /\ devices'[d].mqtt_password_hash = hashPassword(req'[p].resp.password)
                    /\ devices'[d].is_provisioned
                    /\ devices'[d].provisioned_at = pwCounter'
                    /\ devices'[d].mac_address
                         = IF req[p].body.mac_address.t = "undefined"
                           THEN devices[d].mac_address ELSE req[p].body.mac_address
                    /\ devices'[d].firmware_version
                         = IF req[p].body.firmware_version.t = "undefined"
                           THEN devices[d].firmware_version
                           ELSE req[p].body.firmware_version
                    /\ devices'[d].device_token = devices[d].device_token
                    /\ devices'[d].project_id = devices[d].project_id
                    /\ devices'[d].name = devices[d].name
                    /\ devices'[d].hardware_type = devices[d].hardware_type
                    /\ devices'[d].id = devices[d].id
               ELSE devices'[d] = devices[d]]_vars

\* A device that was provisioned with a MAC address and a firmware version,
\* had its token regenerated, and was provisioned again by a request carrying
\* neither: the record holds the second credentials and the first MAC address.
C13_Witness ==
  \E q \in ProvReqs, d \in live :
    /\ req[q].status = 200
    /\ req[q].resp.device_id = d
    /\ req[q].body.mac_address.t = "undefined"
    /\ req[q].body.firmware_version.t = "undefined"
    /\ devices[d].mqtt_password_hash = hashPassword(req[q].resp.password)
    /\ devices[d].mac_address = GoodMac
    /\ devices[d].firmware_version.t = "string"

\* C14: a PATCH request of a signed-in user, whatever its answer, leaves
\* device_token,
\* is_provisioned, mqtt_username, mqtt_password_hash and project_id of every
\* device, and every other field than name and hardware_type, as they were; it
\* changes no record but the one it addresses and creates or deletes none; and
\* a PATCH whose body has no name and no hardware_type is answered 400 without
\* a store call.
C14_PatchFrame ==
  [][(/\ apiCalls' # apiCalls
      /\ lastResp'.endpoint = "patch"
      /\ lastResp'.verdict.user \in Users)
     => /\ live' = live
        /\ \A d \in DevIds :
             /\ devices'[d].device_token = devices[d].device_token
             /\ devices'[d].is_provisioned = devices[d].is_provisioned
             /\ devices'[d].mqtt_username = devices[d].mqtt_username
             /\ devices'[d].mqtt_password_hash = devices[d].mqtt_password_hash
             /\ devices'[d].project_id = devices[d].project_id
             /\ devices'[d] = [devices[d] EXCEPT !.name = devices'[d].name,
                                                 !.hardware_type = devices'[d].hardware_type]
             /\ d # lastResp'.patch.id => devices'[d] = devices[d]
        /\ (lastResp'.patch.name = "" /\ lastResp'.patch.hardware_type = "")
           => /\ lastResp'.status = 400
              /\ lastResp'.ops = 0
              /\ devices' = devices]_vars

\* A PATCH renamed a provisioned device.
C14_Witness ==
  /\ lastResp.endpoint = "patch"
  /\ lastResp.status = 200
  /\ \E d \in live :
       /\ d = lastResp.patch.id
       /\ devices[d].name = "lamp"
       /\ devices[d].is_provisioned
       /\ devices[d].mqtt_password_hash.t = "string"
       /\ devices[d].device_token.t = "string"

====
